---- MODULE Spec2Model ----
(***************************************************************************)
(* The grideye driver (src/src/grideye): the fixed-point codecs of         *)
(* conversion.py and the register-mapped GridEye class of grideye.py,      *)
(* driving a device over an I2C bus.                                       *)
(*                                                                         *)
(* Temperatures are Python floats in the source.  Every float the driver   *)
(* produces is an integer multiple of 0.0625 degrees, so a temperature is  *)
(* modelled exactly as an integer number of sixteenths of a degree.        *)
(***************************************************************************)
EXTENDS Integers, Sequences, FiniteSets, TLC

VARIABLES
    dev,        \* the device behind the bus: its registers and thermistor
    address,    \* GridEye.address
    phase,      \* "new" (no driver object yet), "idle", "session" (in a with-block)
    call,       \* the last driver call: its bus log, outcome and result
    prev,       \* summary of the call before it
    lastConfig, \* <<the InterruptConfig last assigned with success>>, or <<>> (history)
    unit        \* unit harness: one codec or driver function applied to drawn inputs

vars == <<dev, address, phase, call, prev, lastConfig, unit>>

(***************************************************************************)
(* Bounds of the model.                                                    *)
(***************************************************************************)
\* _temperature_to_bytes is applied to every multiple of 1/16 degree whose
\* quarter-degree count lies within -MaxQuarter..MaxQuarter (beyond 12 bits).
MaxQuarter == 4200
\* A bus failure is injected at the n-th bus transaction of a call, n <= MaxFailAt.
MaxFailAt == 5
\* measurements of the sensor distinguished: 0..MaxFrame
MaxFrame == 4

(***************************************************************************)
(* Program constants.                                                      *)
(***************************************************************************)
MaxByte == 255
SixteenthsPerDegree == 16
\* 0.25 degrees (conversion.py:13) and 0.0625 degrees (conversion.py:20).
PixelStep == 4
ThermistorStep == 1
SignBit == 2048
Modulus == 4096
\* asleep compares device_temperature with 2048 (degrees).
AsleepTemperature == 2048
DefaultAddress == 105

REG_MODE == 0
REG_RESET == 1
REG_FRAME_RATE == 2
REG_INT_CONTROL == 3
REG_STATUS == 4
REG_STATUS_CLEAR == 5
REG_INT_LEVELS == 8
REG_THERMISTOR == 14
REG_AVERAGE == 7
REG_INT_TABLE == 16
REG_AVERAGE_COMMAND == 31
REG_PIXELS == 128

MODE_NORMAL == 0
MODE_SLEEP == 16
INITIAL_RESET == 63
FLAG_RESET == 48
CLEAR_INTERRUPT == 2
CLEAR_OVERFLOW == 4

Byte == 0..MaxByte

(***************************************************************************)
(* conversion.py                                                           *)
(***************************************************************************)
\* x & (1 << 11) as a truth value, for x >= 0.
Bit11(x) == (x \div SignBit) % 2 = 1

\* Python's round() on the exact quotient n / d: to nearest, ties to even.
RoundHalfEven(n, d) ==
    LET f == n \div d
        r == n % d
    IN  IF 2 * r < d THEN f
        ELSE IF 2 * r > d THEN f + 1
        ELSE IF f % 2 = 0 THEN f ELSE f + 1

_bytes_to_temperature(lsb, msb) ==
    LET temperature == msb * 256 + lsb
    IN  (IF Bit11(temperature) THEN temperature - Modulus ELSE temperature) * PixelStep

_bytes_to_thermistor_twos_complement(lsb, msb) ==
    LET temperature == msb * 256 + lsb
    IN  (IF Bit11(temperature) THEN temperature - Modulus ELSE temperature)
            * ThermistorStep

_bytes_to_thermistor_masked(lsb, msb) ==
    LET temperature == (msb % 16) * 256 + lsb
    IN  (IF Bit11(temperature) THEN -(temperature - SignBit) ELSE temperature)
            * ThermistorStep

_bytes_to_thermistor_temperature(lsb, msb) ==
    LET temperature == msb * 256 + lsb
    IN  (IF Bit11(temperature) THEN -(temperature - SignBit) ELSE temperature)
            * ThermistorStep

_temperature_to_bytes_unsigned(temperature) ==
    LET t == RoundHalfEven(temperature * 4, SixteenthsPerDegree)
    IN  <<t % 256, t \div 256>>

_temperature_to_bytes_truncating(temperature) ==
    LET t == (temperature * 4) \div SixteenthsPerDegree
        u == IF t < 0 THEN t + Modulus ELSE t
    IN  <<u % 256, u \div 256>>

\* temperature is in sixteenths; temperature * 4 is the exact quotient
\* (temperature * 4) / 16.  >> 8 is floor division, & 0xFF is mod 256.
_temperature_to_bytes(temperature) ==
    LET t == RoundHalfEven(temperature * 4, SixteenthsPerDegree)
        u == IF t < 0 THEN t + Modulus ELSE t
    IN  <<u % 256, u \div 256>>

(***************************************************************************)
(* The device behind the bus (the driver's collaborator, reached only      *)
(* through bus.read_i2c_block_data / bus.write_i2c_block_data).            *)
(* regs holds the readable registers; the thermistor register 0x0E/0x0F    *)
(* reads `sentinel` while the mode register holds the sleep command and    *)
(* `ambient` otherwise.  Registers 0x01, 0x05 and 0x1F are command         *)
(* registers: a write to them is consumed, not stored.  The registers the  *)
(* sensor itself fills (status 0x04, average 0x07, the interrupt table     *)
(* 0x10..0x17, the pixels 0x80..0xFF) hold the content of measurement      *)
(* number `frame`, different at every register of one frame; the high byte *)
(* of a pixel holds four bits.                                             *)
(***************************************************************************)
StoredRegisters == {REG_MODE, REG_FRAME_RATE, REG_INT_CONTROL} \cup
                   (REG_INT_LEVELS .. REG_INT_LEVELS + 5)

SensorByte(frame, a) ==
    LET b == (37 * a + 89 * frame) % (MaxByte + 1)
    IN  IF a >= REG_PIXELS /\ a % 2 = 1 THEN b % 16 ELSE b

DevByte(d, a) ==
    IF a \in {REG_THERMISTOR, REG_THERMISTOR + 1}
    THEN (IF d.regs[REG_MODE] = MODE_SLEEP THEN d.sentinel ELSE d.ambient)
             [a - REG_THERMISTOR + 1]
    ELSE IF a \in StoredRegisters THEN d.regs[a]
    ELSE SensorByte(d.frame, a)

DevRead(d, register, length) ==
    [i \in 1..length |-> DevByte(d, register + i - 1)]

DevWrite(d, register, data) ==
    [d EXCEPT !.regs =
        [a \in StoredRegisters |->
            IF a >= register /\ a < register + Len(data)
            THEN data[a - register + 1] ELSE @[a]]]

(***************************************************************************)
(* A run of driver code: the device, the bus log so far, the index of the  *)
(* bus transaction that will fail (0: none), the outcome ("running" until  *)
(* an exception is raised) and the value of the last expression.           *)
(***************************************************************************)
None == "None"

Start(d, addr, failAt) ==
    [dev |-> d, address |-> addr, log |-> <<>>, failAt |-> failAt,
     outcome |-> "running", result |-> None]

Running(r) == r.outcome = "running"

BusLog(log) == SelectSeq(log, LAMBDA e : e.op # "delay")
Writes(log) == SelectSeq(log, LAMBDA e : e.op = "write")
Reads(log)  == SelectSeq(log, LAMBDA e : e.op = "read")

Entry(op, addr, register, data, length, ms, ok) ==
    [op |-> op, address |-> addr, register |-> register, data |-> data,
     length |-> length, ms |-> ms, ok |-> ok]

\* time.sleep(seconds), in milliseconds
time_sleep(r, ms) ==
    IF ~Running(r) THEN r
    ELSE [r EXCEPT !.log = Append(@, Entry("delay", 0, 0, <<>>, 0, ms, TRUE))]

Fails(r) == Len(BusLog(r.log)) + 1 = r.failAt

_read_default_address(r, register, length) ==
    IF ~Running(r) THEN r
    ELSE IF Fails(r)
    THEN [r EXCEPT !.log = Append(@, Entry("read", DefaultAddress, register, <<>>, length, 0, FALSE)),
                   !.outcome = "BusError"]
    ELSE [r EXCEPT !.log = Append(@, Entry("read", DefaultAddress, register,
                                           DevRead(r.dev, register, length), length, 0, TRUE)),
                   !.result = DevRead(r.dev, register, length)]

\* GridEye._read: the bytes read are the run's result.
_read(r, register, length) ==
    IF ~Running(r) THEN r
    ELSE IF Fails(r)
    THEN [r EXCEPT !.log = Append(@, Entry("read", r.address, register, <<>>, length, 0, FALSE)),
                   !.outcome = "BusError"]
    ELSE [r EXCEPT !.log = Append(@, Entry("read", r.address, register,
                                           DevRead(r.dev, register, length), length, 0, TRUE)),
                   !.result = DevRead(r.dev, register, length)]

_write_retrying(r, register, value) ==
    IF ~Running(r) THEN r
    ELSE IF Fails(r)
    THEN [r EXCEPT !.log = @ \o <<Entry("write", r.address, register, value, Len(value), 0, FALSE),
                                   Entry("write", r.address, register, value, Len(value), 0, TRUE)>>,
                   !.dev = DevWrite(@, register, value),
                   !.result = None]
    ELSE [r EXCEPT !.log = Append(@, Entry("write", r.address, register, value, Len(value), 0, TRUE)),
                   !.dev = DevWrite(@, register, value),
                   !.result = None]

\* GridEye._write: a failed write leaves the device unchanged.
_write(r, register, value) ==
    IF ~Running(r) THEN r
    ELSE IF Fails(r)
    THEN [r EXCEPT !.log = Append(@, Entry("write", r.address, register, value, Len(value), 0, FALSE)),
                   !.outcome = "BusError"]
    ELSE [r EXCEPT !.log = Append(@, Entry("write", r.address, register, value, Len(value), 0, TRUE)),
                   !.dev = DevWrite(@, register, value),
                   !.result = None]

Raise(r, error) == IF Running(r) THEN [r EXCEPT !.outcome = error] ELSE r
Return(r, value) == IF Running(r) THEN [r EXCEPT !.result = value] ELSE r

(***************************************************************************)
(* grideye.py: class GridEye                                               *)
(***************************************************************************)
device_temperature(r) ==
    LET r1 == _read(r, REG_THERMISTOR, 2)
    IN  IF ~Running(r1) THEN r1
        ELSE Return(r1, _bytes_to_thermistor_temperature(r1.result[1], r1.result[2]))

asleep_raw(r) ==
    LET r1 == _read(r, REG_THERMISTOR, 2)
    IN  IF ~Running(r1) THEN r1
        ELSE Return(r1, r1.result[2] * 256 + r1.result[1] = AsleepTemperature)

\* asleep answered from what the last call left behind, without a read
asleep_cached(r) ==
    IF call.op \in {"sleep", "__init__", "__exit__"} /\ call.outcome = "ok"
    THEN Return(r, TRUE)
    ELSE LET r1 == device_temperature(r)
         IN  IF ~Running(r1) THEN r1
             ELSE Return(r1, r1.result = AsleepTemperature * SixteenthsPerDegree)

asleep(r) ==
    LET r1 == device_temperature(r)
    IN  IF ~Running(r1) THEN r1
        ELSE Return(r1, r1.result = AsleepTemperature * SixteenthsPerDegree)

sleep_unconditional(r) ==
    LET r1 == asleep(r)
    IN  IF ~Running(r1) THEN r1
        ELSE Return(time_sleep(_write(r1, REG_MODE, <<MODE_SLEEP>>), 50), None)

sleep(r) ==
    LET r1 == asleep(r)
    IN  IF ~Running(r1) THEN r1
        ELSE IF ~r1.result
        THEN Return(time_sleep(_write(r1, REG_MODE, <<MODE_SLEEP>>), 50), None)
        ELSE Return(r1, None)

\* FrameRate(bytes): b"\x01" is low, b"\x00" is high, anything else ValueError
frame_rate(r) ==
    LET r1 == _read(r, REG_FRAME_RATE, 1)
    IN  IF ~Running(r1) THEN r1
        ELSE IF r1.result = <<1>> THEN Return(r1, "low")
        ELSE IF r1.result = <<0>> THEN Return(r1, "high")
        ELSE Raise(r1, "ValueError")

reset_flags(r) == _write(r, REG_RESET, <<FLAG_RESET>>)

reset_interrupt(r) == _write(r, REG_STATUS_CLEAR, <<CLEAR_INTERRUPT>>)

reset_overflow(r) == _write(r, REG_STATUS_CLEAR, <<CLEAR_OVERFLOW>>)

wake_reset_first(r) ==
    LET r1 == asleep(r)
    IN  IF ~Running(r1) THEN r1
        ELSE IF r1.result
        THEN LET r2 == reset_flags(
                         time_sleep(_write(
                           time_sleep(_write(r1, REG_RESET, <<INITIAL_RESET>>), 2),
                           REG_MODE, <<MODE_NORMAL>>), 50))
                 r3 == frame_rate(r2)
             IN  IF ~Running(r3) THEN r3
                 ELSE Return(time_sleep(r3, IF r3.result = "low" THEN 3000 ELSE 300), None)
        ELSE Return(r1, None)

wake_fixed_delay(r) ==
    LET r1 == asleep(r)
    IN  IF ~Running(r1) THEN r1
        ELSE IF r1.result
        THEN LET r2 == reset_flags(
                         time_sleep(_write(
                           time_sleep(_write(r1, REG_MODE, <<MODE_NORMAL>>), 50),
                           REG_RESET, <<INITIAL_RESET>>), 2))
                 r3 == frame_rate(r2)
             IN  IF ~Running(r3) THEN r3
                 ELSE Return(time_sleep(r3, 300), None)
        ELSE Return(r1, None)

wake(r) ==
    LET r1 == asleep(r)
    IN  IF ~Running(r1) THEN r1
        ELSE IF r1.result
        THEN LET r2 == reset_flags(
                         time_sleep(_write(
                           time_sleep(_write(r1, REG_MODE, <<MODE_NORMAL>>), 50),
                           REG_RESET, <<INITIAL_RESET>>), 2))
                 r3 == frame_rate(r2)
             IN  IF ~Running(r3) THEN r3
                 ELSE Return(time_sleep(r3, IF r3.result = "low" THEN 3000 ELSE 300), None)
        ELSE Return(r1, None)

InterruptConfig(upper_limit, lower_limit, hysteresis, absolute, enabled) ==
    [upper_limit |-> upper_limit, lower_limit |-> lower_limit,
     hysteresis |-> hysteresis, absolute |-> absolute, enabled |-> enabled]

Bit(x, i) == (x \div (2 ^ i)) % 2 = 1

interrupt_config_get_bits_swapped(r) ==
    LET r1 == _read(r, REG_INT_CONTROL, 1)
        r2 == _read(r1, REG_INT_LEVELS, 6)
    IN  IF ~Running(r2) THEN r2
        ELSE LET status_data == r1.result[1]
                 threshold_data == r2.result
             IN  Return(r2, InterruptConfig(
                     _bytes_to_temperature(threshold_data[1], threshold_data[2]),
                     _bytes_to_temperature(threshold_data[3], threshold_data[4]),
                     _bytes_to_temperature(threshold_data[5], threshold_data[6]),
                     Bit(status_data, 0), Bit(status_data, 1)))

interrupt_config_get(r) ==
    LET r1 == _read(r, REG_INT_CONTROL, 1)
        r2 == _read(r1, REG_INT_LEVELS, 6)
    IN  IF ~Running(r2) THEN r2
        ELSE LET status_data == r1.result[1]
                 threshold_data == r2.result
             IN  Return(r2, InterruptConfig(
                     _bytes_to_temperature(threshold_data[1], threshold_data[2]),
                     _bytes_to_temperature(threshold_data[3], threshold_data[4]),
                     _bytes_to_temperature(threshold_data[5], threshold_data[6]),
                     Bit(status_data, 1), Bit(status_data, 0)))

StatusByte(value) ==
    (IF value.enabled THEN 1 ELSE 0) + (IF value.absolute THEN 2 ELSE 0)

ThresholdBytes(value) ==
    _temperature_to_bytes(value.upper_limit)
        \o _temperature_to_bytes(value.lower_limit)
        \o _temperature_to_bytes(value.hysteresis)

interrupt_config_set_status_first(r, value) ==
    LET data == ThresholdBytes(value)
    IN  IF \E i \in 1..Len(data) : data[i] \notin Byte
        THEN Raise(r, "ValueError")
        ELSE reset_interrupt(
                 _write(_write(r, REG_INT_CONTROL, <<StatusByte(value)>>),
                        REG_INT_LEVELS, data))

\* bytes(...) raises ValueError unless every element is in range(256); the
\* argument is built before the first _write is called.
interrupt_config_set(r, value) ==
    LET data == ThresholdBytes(value)
    IN  IF \E i \in 1..Len(data) : data[i] \notin Byte
        THEN Raise(r, "ValueError")
        ELSE reset_interrupt(
                 _write(_write(r, REG_INT_LEVELS, data),
                        REG_INT_CONTROL, <<StatusByte(value)>>))

disable_interrupts(r) ==
    interrupt_config_set(r, InterruptConfig(0, 0, 0, FALSE, FALSE))

\* class FrameRate(bytes, Enum): member name |-> member value
FrameRate == [low |-> <<1>>, high |-> <<0>>]

FrameRateValues == {FrameRate[n] : n \in DOMAIN FrameRate}

\* A value assigned to frame_rate: a FrameRate member or a str (name), a
\* bytes object (bytes), or an int.
FrameRateValue(kind, name, bytes) == [kind |-> kind, name |-> name, bytes |-> bytes]

frame_rate_set_unchecked(r, value) ==
    _write(r, REG_FRAME_RATE,
           IF value.kind = "member" THEN FrameRate[value.name]
           ELSE IF value.kind = "str" /\ value.name = "low" THEN <<1>>
           ELSE IF value.kind = "str" THEN <<0>>
           ELSE value.bytes)

\* FrameRate[value] raises KeyError for an unknown name, FrameRate(value)
\* ValueError for anything that is not a member's value; both precede _write.
frame_rate_set(r, value) ==
    IF value.kind = "str" /\ value.name \notin DOMAIN FrameRate
    THEN Raise(r, "KeyError")
    ELSE IF value.kind \in {"str", "member"}
    THEN _write(r, REG_FRAME_RATE, FrameRate[value.name])
    ELSE IF value.kind = "bytes" /\ value.bytes \in FrameRateValues
    THEN _write(r, REG_FRAME_RATE, value.bytes)
    ELSE Raise(r, "ValueError")

moving_average_get(r) ==
    LET r1 == _read(r, REG_AVERAGE, 1)
    IN  IF ~Running(r1) THEN r1 ELSE Return(r1, Bit(r1.result[1], 5))

moving_average_set_short(r, value) ==
    _write(_write(_write(_write(r,
        REG_AVERAGE_COMMAND, <<80>>),
        REG_AVERAGE_COMMAND, <<69>>),
        REG_AVERAGE_COMMAND, IF value THEN <<32>> ELSE <<0>>),
        REG_AVERAGE_COMMAND, <<0>>)

moving_average_set(r, value) ==
    _write(_write(_write(_write(_write(r,
        REG_AVERAGE_COMMAND, <<80>>),
        REG_AVERAGE_COMMAND, <<69>>),
        REG_AVERAGE_COMMAND, <<87>>),
        REG_AVERAGE_COMMAND, IF value THEN <<32>> ELSE <<0>>),
        REG_AVERAGE_COMMAND, <<0>>)

\* data = [self._read(0x80 + line * 16, length=16) for line in range(n)]
RECURSIVE image_data(_, _)
image_data(r, n) ==
    IF n = 0 THEN Return(r, <<>>)
    ELSE LET r1 == image_data(r, n - 1)
             r2 == _read(r1, REG_PIXELS + (n - 1) * 16, 16)
         IN  IF ~Running(r2) THEN r2
             ELSE Return(r2, Append(r1.result, r2.result))

image_unreversed(r) ==
    LET r1 == image_data(r, 8)
    IN  IF ~Running(r1) THEN r1
        ELSE Return(r1, [row \in 1..8 |-> [col \in 1..8 |->
                 _bytes_to_temperature(r1.result[row][16 - 2 * col + 1],
                                       r1.result[row][16 - 2 * col + 2])]])

\* Row `row` is data[::-1][row - 1]; column `col` is the pixel at byte
\* offset reversed(range(0, 16, 2))[col - 1] = 16 - 2 * col of that line.
image(r) ==
    LET r1 == image_data(r, 8)
    IN  IF ~Running(r1) THEN r1
        ELSE Return(r1, [row \in 1..8 |-> [col \in 1..8 |->
                 _bytes_to_temperature(r1.result[9 - row][16 - 2 * col + 1],
                                       r1.result[9 - row][16 - 2 * col + 2])]])

interrupt(r) ==
    LET r1 == _read(r, REG_STATUS, 1)
    IN  IF ~Running(r1) THEN r1 ELSE Return(r1, Bit(r1.result[1], 1))

overflow(r) ==
    LET r1 == _read(r, REG_STATUS, 1)
    IN  IF ~Running(r1) THEN r1 ELSE Return(r1, Bit(r1.result[1], 2))

_byte_to_bools_lsb_first(value) == [i \in 1..8 |-> Bit(value, i - 1)]

\* [(value >> i) & 0x01 > 0 for i in reversed(range(8))]
_byte_to_bools(value) == [i \in 1..8 |-> Bit(value, 8 - i)]

pixel_interrupt(r) ==
    LET r1 == _read(r, REG_INT_TABLE, 8)
    IN  IF ~Running(r1) THEN r1
        ELSE Return(r1, [row \in 1..8 |-> _byte_to_bools(r1.result[9 - row])])

__init__skipping_sleep(r) == Return(r, None)

__init__(r) == sleep(r)

__enter__(r) == wake(r)

__exit__skipping_on_error(r, exc) == IF exc THEN Return(r, None) ELSE sleep(r)

__exit__suppressing(r, exc) == Return(sleep(r), "True")

__exit__(r, exc) == sleep(r)

\* The error that leaves a with-statement whose __exit__ ran as call c with
\* c.arg telling whether the body raised: the error __exit__ raised if it
\* raised one, else the body's error unless __exit__ returned a true value.
Propagated(c) ==
    IF c.outcome # "ok" THEN c.outcome
    ELSE IF c.arg /\ c.result = None THEN "BodyError"
    ELSE None

(***************************************************************************)
(* The driver as a state machine: one action per public operation.         *)
(* Spec is the lifecycle machine (construction, sleep/wake, the with-      *)
(* block and the reads a body makes) and SpecExternal the same machine on  *)
(* a device that is also reset from outside; SpecInterrupts is the         *)
(* interrupt subsystem of a constructed driver, SpecConfig its             *)
(* configuration setters, SpecMeasure its read-only operations; SpecUnit   *)
(* applies one function to inputs drawn exhaustively.                      *)
(***************************************************************************)
\* Thermistor bytes (lsb, msb) a powered-down device may report: raw 2048
\* (sign-magnitude negative zero), or the pattern that decodes to 2048 degrees.
Sentinels == {<<0, 8>>, <<0, 128>>}
\* Thermistor bytes of a running device: 25 degrees, -0.25 degrees.
AmbientReadings == {<<144, 1>>, <<4, 8>>}
Addresses == {DefaultAddress, DefaultAddress - 1}

\* A device with frame-rate register content in F and zeroed interrupt registers.
Devices(F) ==
    [regs : {[a \in StoredRegisters |-> IF a = REG_MODE THEN m
                                        ELSE IF a = REG_FRAME_RATE THEN f
                                        ELSE 0] :
                m \in {MODE_NORMAL, MODE_SLEEP}, f \in F},
     sentinel : Sentinels,
     ambient : AmbientReadings,
     frame : {0}]

\* InterruptConfig values assigned, thresholds in sixteenths of a degree:
\* the 12-bit extremes -512 and 511.75 with every pair of booleans, then
\* 0.125 (below the 0.25 step), 1024 and -1025 degrees (outside 12 bits).
ConfigInputs ==
    {InterruptConfig(-8192, 8188, 400, a, e) : a \in BOOLEAN, e \in BOOLEAN}
    \cup {InterruptConfig(400, -4, 0, TRUE, FALSE),
          InterruptConfig(2, 0, 0, TRUE, TRUE),
          InterruptConfig(16384, 0, 0, TRUE, TRUE),
          InterruptConfig(0, -16400, 0, TRUE, TRUE)}

\* A bus failure at transaction 1..n of a call of at most n transactions, or none.
FailPoints(n) == 0..(IF n < MaxFailAt THEN n ELSE MaxFailAt)

NoCall == [op |-> "none", arg |-> None, log |-> <<>>, outcome |-> "ok",
           result |-> None, modeBefore |-> MODE_SLEEP]

ModeWrites(log) ==
    SelectSeq(log, LAMBDA e : e.op = "write" /\ e.register = REG_MODE)

\* What the next call's claims need of the call before it.
Summary(c) ==
    IF c.op \in {"sleep", "wake"}
    THEN [op |-> c.op, outcome |-> c.outcome, modeBefore |-> c.modeBefore,
          modeWrites |-> Len(ModeWrites(c.log))]
    ELSE [op |-> "other", outcome |-> "ok", modeBefore |-> MODE_SLEEP,
          modeWrites |-> 0]

NoUnit == [fn |-> "none"]

\* The effect of one driver call that ran as run r.
Complete(op, arg, r) ==
    /\ dev' = r.dev
    /\ call' = [op |-> op, arg |-> arg, log |-> r.log,
                outcome |-> IF Running(r) THEN "ok" ELSE r.outcome,
                result |-> IF Running(r) THEN r.result ELSE None,
                modeBefore |-> dev.regs[REG_MODE]]
    /\ prev' = Summary(call)
    /\ unit' = unit

Constructed == phase \in {"idle", "session"}

Construct ==
    /\ phase = "new"
    /\ \E addr \in Addresses, failAt \in FailPoints(2) :
        LET r == __init__(Start(dev, addr, failAt))
        IN  /\ Complete("__init__", None, r)
            /\ address' = addr
            /\ phase' = IF Running(r) THEN "idle" ELSE "new"
            /\ lastConfig' = lastConfig

Sleep ==
    /\ Constructed
    /\ \E failAt \in FailPoints(2) :
        Complete("sleep", None, sleep(Start(dev, address, failAt)))
    /\ UNCHANGED <<address, phase, lastConfig>>

Wake ==
    /\ Constructed
    /\ \E failAt \in FailPoints(5) :
        Complete("wake", None, wake(Start(dev, address, failAt)))
    /\ UNCHANGED <<address, phase, lastConfig>>

\* with GridEye(...) as g: the body runs only if __enter__ returned.
Enter ==
    /\ phase = "idle"
    /\ \E failAt \in FailPoints(5) :
        LET r == __enter__(Start(dev, address, failAt))
        IN  /\ Complete("__enter__", None, r)
            /\ phase' = IF Running(r) THEN "session" ELSE "idle"
    /\ UNCHANGED <<address, lastConfig>>

\* The with-block ends: the body returned (exc = FALSE) or raised (exc = TRUE).
Exit ==
    /\ phase = "session"
    /\ \E exc \in BOOLEAN, failAt \in FailPoints(2) :
        Complete("__exit__", exc, __exit__(Start(dev, address, failAt), exc))
    /\ phase' = "idle"
    /\ UNCHANGED <<address, lastConfig>>

GetDeviceTemperature ==
    /\ Constructed
    /\ \E failAt \in FailPoints(1) :
        Complete("device_temperature", None,
                 device_temperature(Start(dev, address, failAt)))
    /\ UNCHANGED <<address, phase, lastConfig>>

GetAsleep ==
    /\ Constructed
    /\ \E failAt \in FailPoints(1) :
        Complete("asleep", None, asleep(Start(dev, address, failAt)))
    /\ UNCHANGED <<address, phase, lastConfig>>

GetFrameRate ==
    /\ Constructed
    /\ \E failAt \in FailPoints(1) :
        Complete("frame_rate", None, frame_rate(Start(dev, address, failAt)))
    /\ UNCHANGED <<address, phase, lastConfig>>

ResetFlags ==
    /\ Constructed
    /\ \E failAt \in FailPoints(1) :
        Complete("reset_flags", None, reset_flags(Start(dev, address, failAt)))
    /\ UNCHANGED <<address, phase, lastConfig>>

ResetInterrupt ==
    /\ Constructed
    /\ \E failAt \in FailPoints(1) :
        Complete("reset_interrupt", None, reset_interrupt(Start(dev, address, failAt)))
    /\ UNCHANGED <<address, phase, lastConfig>>

ResetOverflow ==
    /\ Constructed
    /\ \E failAt \in FailPoints(1) :
        Complete("reset_overflow", None, reset_overflow(Start(dev, address, failAt)))
    /\ UNCHANGED <<address, phase, lastConfig>>

GetInterruptConfig ==
    /\ Constructed
    /\ \E failAt \in FailPoints(2) :
        Complete("interrupt_config", None,
                 interrupt_config_get(Start(dev, address, failAt)))
    /\ UNCHANGED <<address, phase, lastConfig>>

SetInterruptConfig ==
    /\ Constructed
    /\ \E value \in ConfigInputs, failAt \in FailPoints(3) :
        LET r == interrupt_config_set(Start(dev, address, failAt), value)
        IN  /\ Complete("interrupt_config=", value, r)
            /\ lastConfig' = IF Running(r) THEN <<value>> ELSE <<>>
    /\ UNCHANGED <<address, phase>>

DisableInterrupts ==
    /\ Constructed
    /\ \E failAt \in FailPoints(3) :
        LET r == disable_interrupts(Start(dev, address, failAt))
        IN  /\ Complete("disable_interrupts", None, r)
            /\ lastConfig' = IF Running(r)
                             THEN <<InterruptConfig(0, 0, 0, FALSE, FALSE)>> ELSE <<>>
    /\ UNCHANGED <<address, phase>>

\* Values assigned to frame_rate: the members, their names, their byte
\* values, and an unknown name, an unknown byte and the int 1.
FrameRateInputs ==
    {FrameRateValue("member", n, <<>>) : n \in DOMAIN FrameRate}
    \cup {FrameRateValue("str", n, <<>>) : n \in {"low", "high", "medium"}}
    \cup {FrameRateValue("bytes", "", b) : b \in {<<1>>, <<0>>, <<2>>}}
    \cup {FrameRateValue("int", "", <<1>>)}

SetFrameRate ==
    /\ Constructed
    /\ \E value \in FrameRateInputs, failAt \in FailPoints(1) :
        Complete("frame_rate=", value, frame_rate_set(Start(dev, address, failAt), value))
    /\ UNCHANGED <<address, phase, lastConfig>>

GetMovingAverage ==
    /\ Constructed
    /\ \E failAt \in FailPoints(1) :
        Complete("moving_average", None, moving_average_get(Start(dev, address, failAt)))
    /\ UNCHANGED <<address, phase, lastConfig>>

SetMovingAverage ==
    /\ Constructed
    /\ \E value \in BOOLEAN, failAt \in FailPoints(5) :
        Complete("moving_average=", value,
                 moving_average_set(Start(dev, address, failAt), value))
    /\ UNCHANGED <<address, phase, lastConfig>>

GetImage ==
    /\ Constructed
    /\ \E failAt \in FailPoints(8) :
        Complete("image", None, image(Start(dev, address, failAt)))
    /\ UNCHANGED <<address, phase, lastConfig>>

GetInterrupt ==
    /\ Constructed
    /\ \E failAt \in FailPoints(1) :
        Complete("interrupt", None, interrupt(Start(dev, address, failAt)))
    /\ UNCHANGED <<address, phase, lastConfig>>

GetOverflow ==
    /\ Constructed
    /\ \E failAt \in FailPoints(1) :
        Complete("overflow", None, overflow(Start(dev, address, failAt)))
    /\ UNCHANGED <<address, phase, lastConfig>>

GetPixelInterrupt ==
    /\ Constructed
    /\ \E failAt \in FailPoints(1) :
        Complete("pixel_interrupt", None, pixel_interrupt(Start(dev, address, failAt)))
    /\ UNCHANGED <<address, phase, lastConfig>>

\* The sensor completes another measurement between calls.
NewFrame ==
    /\ \E f \in (0..MaxFrame) \ {dev.frame} : dev' = [dev EXCEPT !.frame = f]
    /\ UNCHANGED <<address, phase, call, prev, lastConfig, unit>>

\* Something other than the driver changes the mode register between calls:
\* a power cycle or reset brings the device up in normal mode, another bus
\* master may put it to sleep.
ExternalReset ==
    /\ \E m \in {MODE_NORMAL, MODE_SLEEP} \ {dev.regs[REG_MODE]} :
        dev' = [dev EXCEPT !.regs[REG_MODE] = m]
    /\ UNCHANGED <<address, phase, call, prev, lastConfig, unit>>

\* The temperature of a running device changes between calls.
Drift ==
    /\ \E a \in AmbientReadings \ {dev.ambient} : dev' = [dev EXCEPT !.ambient = a]
    /\ UNCHANGED <<address, phase, call, prev, lastConfig, unit>>

\* Before construction: a device in either mode.
Init ==
    /\ dev \in Devices({0, 1, 2})
    /\ address = DefaultAddress
    /\ phase = "new"
    /\ call = NoCall
    /\ prev = Summary(NoCall)
    /\ lastConfig = <<>>
    /\ unit = NoUnit

Next ==
    \/ Construct
    \/ Sleep
    \/ Wake
    \/ Enter
    \/ Exit
    \/ GetDeviceTemperature
    \/ GetAsleep
    \/ GetFrameRate
    \/ ResetFlags
    \/ Drift

Spec == Init /\ [][Next]_vars

\* A constructed driver, outside any with-block.
InitInterrupts ==
    /\ dev \in Devices({0})
    /\ address \in Addresses
    /\ phase = "idle"
    /\ call = NoCall
    /\ prev = Summary(NoCall)
    /\ lastConfig = <<>>
    /\ unit = NoUnit

NextInterrupts ==
    \/ GetInterruptConfig
    \/ SetInterruptConfig
    \/ DisableInterrupts
    \/ ResetInterrupt
    \/ ResetOverflow

SpecInterrupts == InitInterrupts /\ [][NextInterrupts]_vars

\* The lifecycle machine with the device's mode also changed from outside.
NextExternal ==
    \/ Next
    \/ ExternalReset

SpecExternal == Init /\ [][NextExternal]_vars

\* Configuration of a constructed driver: frame rate, moving average and
\* interrupt settings, on a running device whose frame-rate register starts
\* with a content that is no FrameRate.
ConfigDevices ==
    {d \in Devices({2}) : /\ d.regs[REG_MODE] = MODE_NORMAL
                          /\ d.sentinel = <<0, 128>>
                          /\ d.ambient = <<144, 1>>}

InitConfig ==
    /\ dev \in ConfigDevices
    /\ address \in Addresses
    /\ phase = "idle"
    /\ call = NoCall
    /\ prev = Summary(NoCall)
    /\ lastConfig = <<>>
    /\ unit = NoUnit

NextConfig ==
    \/ GetFrameRate
    \/ SetFrameRate
    \/ GetMovingAverage
    \/ SetMovingAverage
    \/ SetInterruptConfig

SpecConfig == InitConfig /\ [][NextConfig]_vars

\* Measurements of a constructed driver: every read-only operation and the
\* operations that write a command register, on a sensor that keeps measuring.
MeasuringDevices ==
    {[d EXCEPT !.frame = f] : d \in Devices({0, 2}), f \in 0..MaxFrame}

InitMeasure ==
    /\ dev \in MeasuringDevices
    /\ address \in Addresses
    /\ phase = "idle"
    /\ call = NoCall
    /\ prev = Summary(NoCall)
    /\ lastConfig = <<>>
    /\ unit = NoUnit

NextMeasure ==
    \/ GetAsleep
    \/ GetDeviceTemperature
    \/ GetImage
    \/ GetFrameRate
    \/ GetMovingAverage
    \/ GetInterruptConfig
    \/ GetInterrupt
    \/ GetOverflow
    \/ GetPixelInterrupt
    \/ ResetFlags
    \/ ResetInterrupt
    \/ ResetOverflow
    \/ SetMovingAverage
    \/ NewFrame

SpecMeasure == InitMeasure /\ [][NextMeasure]_vars

(***************************************************************************)
(* Unit harness: the codec functions on every byte pair and on every       *)
(* temperature of the bounded range, and the thermistor-reading operations *)
(* against a running device whose register 0x0E holds the drawn byte pair. *)
(***************************************************************************)
TemperatureInputs == (-4 * MaxQuarter) .. (4 * MaxQuarter)

UnitDevice(lsb, msb) ==
    [regs |-> [a \in StoredRegisters |-> 0],
     sentinel |-> <<0, 128>>,
     ambient |-> <<lsb, msb>>,
     frame |-> 0]

UnitInput == unit.fn = "input"

Applied(fn, out) ==
    /\ unit' = [unit EXCEPT !.fn = fn, !.out = out]
    /\ UNCHANGED <<dev, address, phase, call, prev, lastConfig>>

RunOutput(r) ==
    [log |-> r.log,
     outcome |-> IF Running(r) THEN "ok" ELSE r.outcome,
     result |-> IF Running(r) THEN r.result ELSE None]

UnitRun == Start(UnitDevice(unit.lsb, unit.msb), DefaultAddress, 0)

Unit_bytes_to_temperature ==
    /\ UnitInput /\ unit.kind = "bytes"
    /\ Applied("_bytes_to_temperature", _bytes_to_temperature(unit.lsb, unit.msb))

Unit_bytes_to_thermistor_temperature ==
    /\ UnitInput /\ unit.kind = "bytes"
    /\ Applied("_bytes_to_thermistor_temperature",
               _bytes_to_thermistor_temperature(unit.lsb, unit.msb))

Unit_temperature_to_bytes ==
    /\ UnitInput /\ unit.kind = "temperature"
    /\ Applied("_temperature_to_bytes", _temperature_to_bytes(unit.temperature))

\* _temperature_to_bytes applied to the result of _bytes_to_temperature
Unit_reencode ==
    /\ unit.fn = "_bytes_to_temperature"
    /\ Applied("reencode", _temperature_to_bytes(unit.out))

Unit_device_temperature ==
    /\ UnitInput /\ unit.kind = "bytes"
    /\ Applied("device_temperature", RunOutput(device_temperature(UnitRun)))

Unit_asleep ==
    /\ UnitInput /\ unit.kind = "bytes"
    /\ Applied("asleep", RunOutput(asleep(UnitRun)))

Unit_sleep ==
    /\ UnitInput /\ unit.kind = "bytes"
    /\ Applied("sleep", RunOutput(sleep(UnitRun)))

Unit_wake ==
    /\ UnitInput /\ unit.kind = "bytes"
    /\ Applied("wake", RunOutput(wake(UnitRun)))

\* interrupt_config = InterruptConfig(upper_limit=temperature, 0, 0)
Unit_interrupt_config_set ==
    /\ UnitInput /\ unit.kind = "temperature"
    /\ Applied("interrupt_config=",
               RunOutput(interrupt_config_set(
                   UnitRun, InterruptConfig(unit.temperature, 0, 0, TRUE, TRUE))))

InitUnit ==
    /\ unit \in [fn : {"input"}, kind : {"bytes"}, lsb : Byte, msb : Byte,
                 temperature : {0}, out : {None}]
            \cup [fn : {"input"}, kind : {"temperature"}, lsb : {0}, msb : {0},
                  temperature : TemperatureInputs, out : {None}]
    /\ dev = UnitDevice(0, 0)
    /\ address = DefaultAddress
    /\ phase = "idle"
    /\ call = NoCall
    /\ prev = Summary(NoCall)
    /\ lastConfig = <<>>

NextUnit ==
    \/ Unit_bytes_to_temperature
    \/ Unit_bytes_to_thermistor_temperature
    \/ Unit_temperature_to_bytes
    \/ Unit_reencode
    \/ Unit_device_temperature
    \/ Unit_asleep
    \/ Unit_sleep
    \/ Unit_wake
    \/ Unit_interrupt_config_set

SpecUnit == InitUnit /\ [][NextUnit]_vars

(***************************************************************************)
(* Properties.                                                             *)
(***************************************************************************)
IsPrefix(s, t) == Len(s) <= Len(t) /\ \A i \in 1..Len(s) : s[i] = t[i]

\* The writes of a log, failed attempts included, as <<register, data>> pairs.
WritePairs(log) ==
    [i \in 1..Len(Writes(log)) |-> <<Writes(log)[i].register, Writes(log)[i].data>>]

WakeWrites == << <<0, <<0>> >>, <<1, <<63>> >>, <<1, <<48>> >> >>

\* The call read the thermistor register and found these bytes.
FirstRead(log, bytes) ==
    /\ Len(log) >= 1
    /\ log[1].op = "read" /\ log[1].register = 14 /\ log[1].length = 2
    /\ log[1].ok /\ log[1].data = bytes

UnitIs(fn) == unit.fn = fn

\* C1 (as stated): asleep is true exactly for the register content
\* (lsb = 0x00, msb = 0x08), raw 2048; sleep() writes nothing and wake() runs
\* its wake sequence exactly for that content.
C1_AsleepIffRaw2048 ==
    LET raw2048 == unit.lsb = 0 /\ unit.msb = 8
    IN  /\ UnitIs("asleep") => (unit.out.result <=> raw2048)
        /\ UnitIs("sleep") => ((Writes(unit.out.log) = <<>>) <=> raw2048)
        /\ UnitIs("wake") => ((WritePairs(unit.out.log) = WakeWrites) <=> raw2048)

\* C1 (amended): asleep is true exactly when the thermistor register holds
\* (lsb = 0x00, msb = 0x80), the one content that decodes to 2048 degrees, and
\* false for every other 2-byte content, raw 2048 included; sleep() writes
\* nothing and wake() runs its wake sequence exactly for that content.
C1_AsleepIffDecoded2048 ==
    LET sentinel == unit.lsb = 0 /\ unit.msb = 128
    IN  /\ UnitIs("asleep") => (unit.out.result <=> sentinel)
        /\ UnitIs("sleep") =>
              /\ (Writes(unit.out.log) = <<>>) <=> sentinel
              /\ ~sentinel => WritePairs(unit.out.log) = << <<0, <<16>> >> >>
        /\ UnitIs("wake") =>
              /\ (WritePairs(unit.out.log) = WakeWrites) <=> sentinel
              /\ ~sentinel => Writes(unit.out.log) = <<>>

C1_Witness ==
    /\ UnitIs("wake") /\ unit.lsb = 0 /\ unit.msb = 128
    /\ WritePairs(unit.out.log) = WakeWrites

\* C2 (as stated): on a device whose thermistor register reads raw 2048
\* (0x00, 0x08) exactly while its mode register holds the sleep command, two
\* consecutive sleep() calls from an awake device, and two consecutive wake()
\* calls from a sleeping device, write the mode register exactly once.
C2_IdempotentOnRaw2048Device ==
    (dev.sentinel = <<0, 8>> /\ prev.outcome = "ok" /\ call.outcome = "ok") =>
        /\ (prev.op = "sleep" /\ call.op = "sleep" /\ prev.modeBefore = 0) =>
              prev.modeWrites + Len(ModeWrites(call.log)) = 1
        /\ (prev.op = "wake" /\ call.op = "wake" /\ prev.modeBefore = 16) =>
              prev.modeWrites + Len(ModeWrites(call.log)) = 1

\* C2 (amended): on a device whose thermistor register reads (0x00, 0x80),
\* which decodes to 2048 degrees, exactly while its mode register holds the
\* sleep command, two consecutive sleep() calls from an awake device, and two
\* consecutive wake() calls from a sleeping device, write the mode register
\* exactly once: the first call writes it, the second call writes nothing.
C2_IdempotentOnDecoded2048Device ==
    (dev.sentinel = <<0, 128>> /\ prev.outcome = "ok" /\ call.outcome = "ok") =>
        /\ (prev.op = "sleep" /\ call.op = "sleep" /\ prev.modeBefore = 0) =>
              /\ prev.modeWrites = 1
              /\ Writes(call.log) = <<>>
        /\ (prev.op = "wake" /\ call.op = "wake" /\ prev.modeBefore = 16) =>
              /\ prev.modeWrites = 1
              /\ Writes(call.log) = <<>>

C2_Witness ==
    /\ dev.sentinel = <<0, 128>>
    /\ prev.op = "sleep" /\ prev.outcome = "ok" /\ prev.modeBefore = 0
    /\ prev.modeWrites = 1
    /\ call.op = "sleep" /\ call.outcome = "ok" /\ Writes(call.log) = <<>>

\* C3: when wake() finds the device asleep its writes are, in order, 0x00 to
\* register 0x00, 0x3F to register 0x01, 0x30 to register 0x01 and no other
\* (a bus failure cuts the sequence short, never reorders it); register 0x02 is
\* read only after the three writes; when it finds the device awake it writes
\* nothing.
C3_WakeSequence ==
    call.op \in {"wake", "__enter__"} =>
        /\ IsPrefix(WritePairs(call.log), WakeWrites)
        /\ (FirstRead(call.log, <<0, 128>>) /\ call.outcome # "BusError") =>
              /\ WritePairs(call.log) = WakeWrites
              /\ \A i \in 1..Len(call.log) : call.log[i].ok
        /\ \A i \in 1..Len(call.log) :
              (call.log[i].op = "read" /\ call.log[i].register = 2) =>
                  WritePairs(SubSeq(call.log, 1, i - 1)) = WakeWrites
        /\ ~FirstRead(call.log, <<0, 128>>) => Writes(call.log) = <<>>

C3_Witness ==
    /\ call.op = "wake" /\ call.outcome = "ok"
    /\ FirstRead(call.log, <<0, 128>>)
    /\ WritePairs(call.log) = WakeWrites
    /\ \E i \in 1..Len(call.log) : call.log[i].op = "read" /\ call.log[i].register = 2

\* C4 (as stated): after scope exit of a with-block whose entry succeeded the
\* device is always in sleep mode, whether the body returned or raised.
C4_AsleepAfterEveryExit ==
    call.op = "__exit__" => dev.regs[0] = 16

\* C4 (amended): scope exit runs sleep() whether the body returned or raised:
\* it reads the thermistor register, writes 0x10 to register 0x00 if it does
\* not find the device asleep and nothing if it does; the device is in sleep
\* mode after scope exit whenever that sleep() met no bus failure.
C4_ExitRunsSleep ==
    call.op = "__exit__" =>
        /\ Len(call.log) >= 1
        /\ call.log[1].op = "read" /\ call.log[1].register = 14
        /\ call.log[1].length = 2
        /\ (call.log[1].ok /\ call.log[1].data # <<0, 128>>) =>
              WritePairs(call.log) = << <<0, <<16>> >> >>
        /\ (call.log[1].ok /\ call.log[1].data = <<0, 128>>) =>
              Writes(call.log) = <<>>
        /\ IsPrefix(WritePairs(call.log), << <<0, <<16>> >> >>)
        /\ call.outcome = "ok" => dev.regs[0] = 16

C4_Witness ==
    /\ call.op = "__exit__" /\ call.arg = TRUE /\ call.outcome = "ok"
    /\ call.modeBefore = 0
    /\ WritePairs(call.log) = << <<0, <<16>> >> >>
    /\ dev.regs[0] = 16

\* C5: for every byte pair with msb in 0..15, _bytes_to_temperature gives
\* raw * 0.25 for raw = msb * 256 + lsb below 2048 and (raw - 4096) * 0.25
\* otherwise, and _temperature_to_bytes of that temperature is (lsb, msb).
C5_RoundTrip ==
    LET raw == unit.msb * 256 + unit.lsb
    IN  /\ (UnitIs("_bytes_to_temperature") /\ unit.msb <= 15) =>
              unit.out = (IF raw < 2048 THEN raw ELSE raw - 4096) * 4
        /\ (UnitIs("reencode") /\ unit.msb <= 15) =>
              unit.out = <<unit.lsb, unit.msb>>

C5_Witness ==
    /\ UnitIs("reencode") /\ unit.lsb = 255 /\ unit.msb = 15
    /\ unit.out = <<255, 15>>

\* C6 (as stated): both decoders ignore the top 4 bits of msb: for all lsb and
\* msb in 0..255 the result equals that of the pair (lsb, msb & 0x0F).
C6_TopBitsIgnored ==
    /\ UnitIs("_bytes_to_temperature") =>
          unit.out = _bytes_to_temperature(unit.lsb, unit.msb % 16)
    /\ UnitIs("_bytes_to_thermistor_temperature") =>
          unit.out = _bytes_to_thermistor_temperature(unit.lsb, unit.msb % 16)

\* C6 (amended): both decoders accept every byte pair and do not mask msb:
\* each step of its top 4 bits weighs 4096 raw units, so
\* _bytes_to_temperature(lsb, msb) is the result for (lsb, msb & 0x0F) plus
\* (msb >> 4) * 1024 degrees, and _bytes_to_thermistor_temperature(lsb, msb) is
\* the result for (lsb, msb & 0x0F) plus (msb >> 4) * 256 degrees when bit 11
\* is clear and minus that when it is set; the two results agree exactly when
\* msb < 16.
C6_TopBitsWeighed ==
    LET top == unit.msb \div 16
        negative == (unit.msb \div 8) % 2 = 1
    IN  /\ UnitIs("_bytes_to_temperature") =>
              /\ unit.out \in Int
              /\ unit.out = _bytes_to_temperature(unit.lsb, unit.msb % 16)
                                + top * 1024 * 16
        /\ UnitIs("_bytes_to_thermistor_temperature") =>
              /\ unit.out \in Int
              /\ unit.out = _bytes_to_thermistor_temperature(unit.lsb, unit.msb % 16)
                                + (IF negative THEN -1 ELSE 1) * top * 256 * 16
              /\ (unit.out = _bytes_to_thermistor_temperature(unit.lsb, unit.msb % 16))
                     <=> unit.msb < 16

C6_Witness ==
    /\ UnitIs("_bytes_to_thermistor_temperature")
    /\ unit.lsb = 0 /\ unit.msb = 128
    /\ unit.out = 2048 * 16

\* The quarter-degree count round(4 * t) of the drawn temperature.
UnitQuarters == RoundHalfEven(unit.temperature * 4, 16)

\* C7 (as stated): for every temperature, with q = round(4 * t) and
\* r = q mod 4096, _temperature_to_bytes returns (r mod 256, r div 256), both
\* in 0..255 with the top 4 bits of msb zero, and the interrupt_config setter
\* never fails to turn them into bus bytes.
C7_AlwaysWraps ==
    LET r == UnitQuarters % 4096
    IN  /\ UnitIs("_temperature_to_bytes") =>
              /\ unit.out = <<r % 256, r \div 256>>
              /\ unit.out[1] \in 0..255 /\ unit.out[2] \in 0..15
        /\ UnitIs("interrupt_config=") => unit.out.outcome = "ok"

\* C7 (amended): _temperature_to_bytes wraps only for q = round(4 * t) in
\* -4096..4095, where it returns (r mod 256, r div 256) with r = q mod 4096,
\* both bytes in 0..255 and the top 4 bits of msb zero.  For q >= 4096 it
\* returns (q mod 256, q div 256) with msb >= 16, and for q < -4096 a negative
\* msb.  The interrupt_config setter raises ValueError, before any bus
\* transaction, exactly when a byte is outside 0..255 (q < -4096 or
\* q >= 65536), and otherwise writes the bytes as returned.
C7_WrapsWithinOneModulus ==
    LET q == UnitQuarters
        r == q % 4096
    IN  /\ UnitIs("_temperature_to_bytes") =>
              /\ (q >= -4096 /\ q <= 4095) =>
                    /\ unit.out = <<r % 256, r \div 256>>
                    /\ unit.out[1] \in 0..255 /\ unit.out[2] \in 0..15
              /\ q >= 4096 =>
                    /\ unit.out = <<q % 256, q \div 256>>
                    /\ unit.out[2] >= 16
              /\ q < -4096 =>
                    /\ unit.out[1] = q % 256
                    /\ unit.out[2] < 0
        /\ UnitIs("interrupt_config=") =>
              /\ (unit.out.outcome = "ValueError") <=> (q < -4096 \/ q >= 65536)
              /\ unit.out.outcome = "ValueError" => unit.out.log = <<>>
              /\ unit.out.outcome # "ValueError" =>
                    /\ unit.out.outcome = "ok"
                    /\ unit.out.log[1].data[1] = q % 256
                    /\ unit.out.log[1].data[2] =
                           (IF q < 0 THEN q + 4096 ELSE q) \div 256

C7_Witness ==
    /\ UnitIs("_temperature_to_bytes")
    /\ unit.temperature = -8196
    /\ unit.out = <<255, 7>>

\* C8: for every byte pair with msb in 0..15 and raw = msb * 256 + lsb,
\* _bytes_to_thermistor_temperature returns raw * 0.0625 when bit 11 of raw is
\* clear and -(raw - 2048) * 0.0625 when it is set, so (0x00, 0x08) decodes to
\* 0; device_temperature is this decode of one 2-byte read of register 0x0E.
C8_SignMagnitude ==
    LET raw == unit.msb * 256 + unit.lsb
        value == IF raw < 2048 THEN raw ELSE -(raw - 2048)
    IN  /\ (UnitIs("_bytes_to_thermistor_temperature") /\ unit.msb <= 15) =>
              unit.out = value
        /\ UnitIs("device_temperature") =>
              /\ Len(unit.out.log) = 1
              /\ unit.out.log[1].op = "read" /\ unit.out.log[1].register = 14
              /\ unit.out.log[1].length = 2
              /\ unit.out.log[1].data = <<unit.lsb, unit.msb>>
              /\ unit.msb <= 15 => unit.out.result = value
              /\ (unit.lsb = 0 /\ unit.msb = 8) => unit.out.result = 0

C8_Witness ==
    /\ UnitIs("device_temperature")
    /\ unit.lsb = 187 /\ unit.msb = 11
    /\ unit.out.result = -955

\* The <<register, data>> writes of assigning InterruptConfig value.
ConfigWrites(value) ==
    << <<8, _temperature_to_bytes(value.upper_limit)
              \o _temperature_to_bytes(value.lower_limit)
              \o _temperature_to_bytes(value.hysteresis)>>,
       <<3, <<(IF value.enabled THEN 1 ELSE 0) + (IF value.absolute THEN 2 ELSE 0)>> >>,
       <<5, <<2>> >> >>

\* C9: assigning interrupt_config issues exactly three writes in this order:
\* the 6 threshold bytes to register 0x08, the status byte (bit 0 enabled,
\* bit 1 absolute) to register 0x03, then 0x02 to register 0x05 (a bus failure
\* cuts the sequence short, never reorders it); it never writes 0x30 to
\* register 0x01 nor 0x04 to register 0x05, and reads nothing.
\* disable_interrupts() is this sequence with six zero bytes and status 0x00.
C9_SetterSequence ==
    /\ call.op = "interrupt_config=" =>
          /\ IsPrefix(WritePairs(call.log), ConfigWrites(call.arg))
          /\ call.outcome = "ok" =>
                /\ WritePairs(call.log) = ConfigWrites(call.arg)
                /\ Len(call.log) = 3
                /\ \A i \in 1..3 : call.log[i].ok
          /\ call.outcome = "ValueError" => call.log = <<>>
          /\ Reads(call.log) = <<>>
          /\ \A i \in 1..Len(call.log) :
                /\ <<call.log[i].register, call.log[i].data>> # <<1, <<48>> >>
                /\ <<call.log[i].register, call.log[i].data>> # <<5, <<4>> >>
    /\ call.op = "disable_interrupts" =>
          /\ IsPrefix(WritePairs(call.log),
                      << <<8, <<0, 0, 0, 0, 0, 0>> >>, <<3, <<0>> >>, <<5, <<2>> >> >>)
          /\ call.outcome = "ok" => Len(WritePairs(call.log)) = 3
          /\ Reads(call.log) = <<>>

C9_Witness ==
    /\ call.op = "interrupt_config=" /\ call.outcome = "ok"
    /\ call.arg = InterruptConfig(400, -4, 0, TRUE, FALSE)
    /\ WritePairs(call.log) =
           << <<8, <<100, 0, 255, 15, 0, 0>> >>, <<3, <<2>> >>, <<5, <<2>> >> >>

\* Thresholds that are multiples of 0.25 in [-512, 511.75].
Representable(c) ==
    \A t \in {c.upper_limit, c.lower_limit, c.hysteresis} :
        t % 4 = 0 /\ t >= -512 * 16 /\ t <= 511 * 16 + 12

\* C10: after an InterruptConfig with thresholds that are multiples of 0.25 in
\* [-512, 511.75] was assigned, reading interrupt_config returns the same
\* upper_limit, lower_limit, hysteresis, absolute and enabled.
C10_ConfigRoundTrip ==
    (/\ call.op = "interrupt_config" /\ call.outcome = "ok"
     /\ lastConfig # <<>>
     /\ Representable(lastConfig[1]))
        => call.result = lastConfig[1]

C10_Witness ==
    /\ call.op = "interrupt_config" /\ call.outcome = "ok"
    /\ lastConfig = <<InterruptConfig(-8192, 8188, 400, TRUE, FALSE)>>
    /\ call.result = InterruptConfig(-8192, 8188, 400, TRUE, FALSE)

\* The five writes of the moving-average setter, as <<register, data>> pairs.
AverageWrites(value) ==
    << <<31, <<80>> >>, <<31, <<69>> >>, <<31, <<87>> >>,
       <<31, IF value THEN <<32>> ELSE <<0>> >>, <<31, <<0>> >> >>

\* C11: assigning moving_average issues writes only, all to register 0x1F, in
\* the order 0x50, 0x45, 0x57, then 0x20 (True) or 0x00 (False), then 0x00,
\* with no read and no other write in between: a call that meets no bus
\* failure issues exactly these five, a call that meets one stops within them.
C11_MovingAverageSequence ==
    call.op = "moving_average=" =>
        /\ call.outcome \in {"ok", "BusError"}
        /\ \A i \in 1..Len(call.log) : call.log[i].op = "write"
        /\ IsPrefix(WritePairs(call.log), AverageWrites(call.arg))
        /\ call.outcome = "ok" => WritePairs(call.log) = AverageWrites(call.arg)

C11_Witness ==
    /\ call.op = "moving_average="
    /\ call.arg
    /\ call.outcome = "ok"
    /\ Len(call.log) = 5
    /\ call.log[4].data = <<32>>

\* The assigned value is a FrameRate member, the name of one, or the byte
\* value of one.
Recognised(v) ==
    \/ v.kind \in {"member", "str"} /\ v.name \in {"low", "high"}
    \/ v.kind = "bytes" /\ v.bytes \in {<<1>>, <<0>>}

\* The byte the frame-rate register takes for a recognised value.
FrameRateByte(v) ==
    IF v.name = "low" \/ (v.kind = "bytes" /\ v.bytes = <<1>>) THEN 1 ELSE 0

\* C12: assigning frame_rate a value that is no FrameRate member, member
\* name or member byte value fails with an error and issues no bus
\* transaction; a recognised value leads to exactly one bus transaction, a
\* write to register 0x02 of the byte 0x01 for low and 0x00 for high.
C12_FrameRateSetter ==
    call.op = "frame_rate=" =>
        IF Recognised(call.arg)
        THEN /\ Len(call.log) = 1
             /\ call.log[1].op = "write"
             /\ call.log[1].register = 2
             /\ call.log[1].data = <<FrameRateByte(call.arg)>>
             /\ call.outcome = IF call.log[1].ok THEN "ok" ELSE "BusError"
             /\ call.log[1].ok => dev.regs[2] = FrameRateByte(call.arg)
        ELSE /\ call.log = <<>>
             /\ call.outcome \in {"KeyError", "ValueError"}

C12_Witness ==
    /\ call.op = "frame_rate="
    /\ call.arg.kind = "str"
    /\ call.arg.name = "medium"
    /\ call.outcome = "KeyError"
    /\ call.log = <<>>

\* The bytes the call read from `register`, if it read that register.
DataReadAt(log, register) ==
    LET hits == SelectSeq(log, LAMBDA e : e.op = "read" /\ e.ok /\ e.register = register)
    IN  hits[1].data

\* C13: image issues reads only, each of 16 bytes, the n-th (n = 0..7) of
\* register 0x80 + 16 * n: all eight in ascending order when no bus failure
\* occurs.  Element [r][c] (r, c = 0..7) of the matrix returned is the
\* two's-complement decode of bytes 14 - 2c (low) and 15 - 2c (high) of the
\* 16 bytes read from register 0x80 + 16 * (7 - r), in sixteenths of a degree.
C13_ImageReadsAndLayout ==
    call.op = "image" =>
        /\ call.outcome \in {"ok", "BusError"}
        /\ Len(call.log) <= 8
        /\ \A i \in 1..Len(call.log) :
            /\ call.log[i].op = "read"
            /\ call.log[i].length = 16
            /\ call.log[i].register = 128 + 16 * (i - 1)
        /\ call.outcome = "ok" =>
            /\ Len(call.log) = 8
            /\ \A r \in 0..7, c \in 0..7 :
                LET line == DataReadAt(call.log, 128 + 16 * (7 - r))
                    raw == 256 * line[15 - 2 * c + 1] + line[14 - 2 * c + 1]
                IN  call.result[r + 1][c + 1] =
                        4 * (IF raw >= 2048 THEN raw - 4096 ELSE raw)

C13_Witness ==
    /\ call.op = "image"
    /\ call.outcome = "ok"
    /\ Len(call.log) = 8
    /\ call.result[1][1] # call.result[8][1]
    /\ call.result[1][1] # call.result[1][8]
    /\ call.result[1][1] < 0

\* C14: pixel_interrupt issues exactly one bus transaction, a read of 8
\* bytes from register 0x10, and element [r][c] (r, c = 0..7) of the matrix
\* returned is TRUE exactly when bit 7 - c of byte 7 - r of that read is set.
C14_PixelInterruptLayout ==
    call.op = "pixel_interrupt" =>
        /\ Len(call.log) = 1
        /\ call.log[1].op = "read"
        /\ call.log[1].register = 16
        /\ call.log[1].length = 8
        /\ call.outcome = IF call.log[1].ok THEN "ok" ELSE "BusError"
        /\ call.outcome = "ok" =>
            \A r \in 0..7, c \in 0..7 :
                call.result[r + 1][c + 1] =
                    ((call.log[1].data[7 - r + 1] \div (2 ^ (7 - c))) % 2 = 1)

C14_Witness ==
    /\ call.op = "pixel_interrupt"
    /\ call.outcome = "ok"
    /\ call.result[1] # call.result[8]
    /\ call.result[1][1] # call.result[1][8]

\* The register file after the successful writes of a log, in order.
RECURSIVE ApplyWrites(_, _)
ApplyWrites(regs, log) ==
    IF log = <<>> THEN regs
    ELSE LET e == Head(log)
             after == IF e.op = "write" /\ e.ok
                      THEN [a \in DOMAIN regs |->
                               IF a >= e.register /\ a < e.register + Len(e.data)
                               THEN e.data[a - e.register + 1] ELSE regs[a]]
                      ELSE regs
         IN  ApplyWrites(after, Tail(log))

\* A call ends with a bus failure exactly when a transaction failed, and the
\* failed transaction is the last entry of its log: not issued again, and
\* followed by no transaction and no delay.
NoRetry ==
    /\ \A i \in 1..Len(call.log) : ~call.log[i].ok => i = Len(call.log)
    /\ call.outcome = "BusError" <=> (call.log # <<>> /\ ~call.log[Len(call.log)].ok)

\* The two cases named: the interrupt-configuration setter failing at its
\* status write (thresholds written, no flag reset), and the moving-average
\* sequence failing (fewer than five writes took place).
FailureExamples ==
    /\ (/\ call.op = "interrupt_config="
        /\ call.outcome = "BusError"
        /\ Len(call.log) = 2)
       => /\ call.log[1].ok /\ call.log[1].register = 8
          /\ [i \in 1..6 |-> dev.regs[7 + i]] = call.log[1].data
          /\ call.log[2].register = 3
          /\ \A i \in 1..2 : call.log[i].register # 5
    /\ (call.op = "moving_average=" /\ call.outcome = "BusError")
       => /\ Len(call.log) <= 5
          /\ Len(SelectSeq(call.log, LAMBDA e : e.ok)) = Len(call.log) - 1

\* The registers after a call are the registers before it with the call's
\* successful writes applied: nothing is undone.
NoRollback == dev'.regs = ApplyWrites(dev.regs, call'.log)

\* C15: a bus failure ends the driver operation with a failure; the failed
\* transaction is not re-issued and no further transaction follows it, and
\* the writes made before it stay in effect.
C15_NoRetryNoRollback ==
    /\ [](NoRetry /\ FailureExamples)
    /\ [][NoRollback]_vars

C15_Witness ==
    /\ call.op = "interrupt_config="
    /\ call.outcome = "BusError"
    /\ Len(call.log) = 2
    /\ call.log[1].data = <<0, 8, 255, 7, 100, 0>>
    /\ [i \in 1..6 |-> dev.regs[7 + i]] = <<0, 8, 255, 7, 100, 0>>
    /\ ~Bit(dev.regs[3], 0)
    /\ call.arg.enabled

\* C16: whatever mode the device is in, the first bus transaction of the
\* constructor is a 2-byte read of register 0x0E; its only write is the
\* sleep command 0x10 to register 0x00, issued exactly when that read does
\* not report the device asleep (bytes other than 0x00, 0x80); and when the
\* constructor returns the device is in sleep mode.
C16_ConstructorSleeps ==
    call.op = "__init__" =>
        /\ Len(call.log) >= 1
        /\ call.log[1].op = "read"
        /\ call.log[1].register = 14
        /\ call.log[1].length = 2
        /\ call.log[1].ok =>
            WritePairs(call.log) = IF call.log[1].data = <<0, 128>>
                                   THEN <<>> ELSE << <<0, <<16>> >> >>
        /\ call.outcome = "ok" => dev.regs[0] = 16 /\ phase # "new"
        /\ call.outcome # "ok" => phase = "new"

C16_Witness ==
    /\ call.op = "__init__"
    /\ call.outcome = "ok"
    /\ call.modeBefore = 0
    /\ WritePairs(call.log) = << <<0, <<16>> >> >>
    /\ dev.regs[0] = 16

\* One frame period in milliseconds for the content of register 0x02:
\* 1 frame per second for 0x01 (low), 10 frames per second for 0x00 (high).
FramePeriod(bytes) == IF bytes = <<1>> THEN 1000 ELSE 100

\* C17: when wake() (also as session entry) finds the device asleep and
\* returns normally, it delays 50 ms after the normal-mode write, 2 ms after
\* the initial reset, and after the flag reset it reads register 0x02 and
\* delays at least two frame periods of the rate found there: at least
\* 2000 ms for low, at least 200 ms for high.
C17_WakeDelays ==
    (/\ call.op \in {"wake", "__enter__"}
     /\ call.outcome = "ok"
     /\ call.log[1].data = <<0, 128>>)
    => /\ Len(call.log) = 8
       /\ call.log[2].op = "write" /\ call.log[2].register = 0
       /\ call.log[2].data = <<0>>
       /\ call.log[3].op = "delay" /\ call.log[3].ms = 50
       /\ call.log[4].op = "write" /\ call.log[4].register = 1
       /\ call.log[4].data = <<63>>
       /\ call.log[5].op = "delay" /\ call.log[5].ms = 2
       /\ call.log[6].op = "write" /\ call.log[6].register = 1
       /\ call.log[6].data = <<48>>
       /\ call.log[7].op = "read" /\ call.log[7].register = 2
       /\ call.log[7].data \in {<<0>>, <<1>>}
       /\ call.log[8].op = "delay"
       /\ call.log[8].ms >= 2 * FramePeriod(call.log[7].data)

C17_Witness ==
    /\ call.op = "wake"
    /\ call.outcome = "ok"
    /\ Len(call.log) = 8
    /\ call.log[7].data = <<1>>
    /\ call.log[8].ms >= 2000

\* The call began with a read of the two thermistor bytes.
ReadsThermistorFirst(log) ==
    /\ Len(log) >= 1
    /\ log[1].op = "read" /\ log[1].register = 14 /\ log[1].length = 2

\* What each call does is decided by the bytes it read itself.
DecidedByOwnReads ==
    /\ call.op \in {"sleep", "__init__", "__exit__"} =>
        /\ ReadsThermistorFirst(call.log)
        /\ call.log[1].ok =>
            WritePairs(call.log) = IF call.log[1].data = <<0, 128>>
                                   THEN <<>> ELSE << <<0, <<16>> >> >>
    /\ call.op \in {"wake", "__enter__"} =>
        /\ ReadsThermistorFirst(call.log)
        /\ call.log[1].ok =>
            IF call.log[1].data = <<0, 128>>
            THEN /\ WritePairs(call.log) # <<>>
                 /\ IsPrefix(WritePairs(call.log), WakeWrites)
                 /\ call.outcome = "ok" =>
                        call.log[8].ms = IF call.log[7].data = <<1>> THEN 3000 ELSE 300
            ELSE WritePairs(call.log) = <<>>
    /\ call.op \in {"asleep", "device_temperature"} =>
        /\ ReadsThermistorFirst(call.log) /\ Len(call.log) = 1
        /\ (call.op = "asleep" /\ call.outcome = "ok") =>
            call.result = (call.log[1].data = <<0, 128>>)
    /\ call.op = "frame_rate" =>
        /\ Len(call.log) = 1
        /\ call.log[1].op = "read" /\ call.log[1].register = 2
        /\ call.outcome = "ok" =>
            call.result = IF call.log[1].data = <<1>> THEN "low" ELSE "high"

\* The bytes a call reads first are the device's registers as they are when
\* the call is made, whatever earlier calls read or wrote.
ReadsCurrentRegisters ==
    (/\ \/ call'.op # call.op
        \/ call'.log # call.log
        \/ call'.modeBefore # call.modeBefore
        \/ prev' # prev
        \/ phase' # phase
     /\ call'.log # <<>>
     /\ call'.log[1].op = "read"
     /\ call'.log[1].ok)
    => call'.log[1].data = DevRead(dev, call'.log[1].register, call'.log[1].length)

\* C18: the driver keeps no copy of device state: with the mode register
\* also changed from outside between calls, every call that depends on the
\* device's mode or frame rate reads the register again and acts on the
\* bytes of that read alone.
C18_NoCachedState ==
    /\ []DecidedByOwnReads
    /\ [][ReadsCurrentRegisters]_vars

\* sleep() right after a successful sleep() finds the device awake and
\* writes the sleep command again: the device was reset in between.
C18_Witness ==
    /\ prev.op = "sleep" /\ prev.outcome = "ok"
    /\ call.op = "sleep" /\ call.outcome = "ok"
    /\ call.modeBefore = 0
    /\ WritePairs(call.log) = << <<0, <<16>> >> >>

\* C19 (as stated): an error raised in the body of a with-block is the error
\* that reaches the caller after scope exit, on every exit path.
C19_BodyErrorAlwaysReachesCaller ==
    (call.op = "__exit__" /\ call.arg) => Propagated(call) = "BodyError"

\* C19: scope exit never suppresses an error raised in the body of a
\* with-block (__exit__ returns None), and that error reaches the caller
\* unchanged whenever the sleep() run at exit meets no bus failure; when the
\* bus fails during that sleep(), the bus error reaches the caller instead.
C19_BodyErrorUnlessExitFails ==
    call.op = "__exit__" =>
        /\ call.outcome \in {"ok", "BusError"}
        /\ call.outcome = "ok" => call.result = None
        /\ call.arg =>
            Propagated(call) = IF call.outcome = "ok" THEN "BodyError" ELSE "BusError"
        /\ ~call.arg =>
            Propagated(call) = IF call.outcome = "ok" THEN None ELSE "BusError"

C19_Witness ==
    /\ call.op = "__exit__"
    /\ call.arg
    /\ call.outcome = "BusError"
    /\ ~call.log[Len(call.log)].ok
    /\ Propagated(call) = "BusError"

ReadOnlyOps ==
    {"asleep", "device_temperature", "image", "frame_rate", "moving_average",
     "interrupt_config", "interrupt", "overflow", "pixel_interrupt"}

\* A read-only operation issues reads and nothing else, and every bus
\* transaction of any operation carries the driver's device address.
ReadsOnlyAtOwnAddress ==
    /\ call.op \in ReadOnlyOps =>
        \A i \in 1..Len(call.log) : call.log[i].op = "read"
    /\ \A i \in 1..Len(call.log) :
        call.log[i].op \in {"read", "write"} => call.log[i].address = address

\* A read-only operation leaves every register of the device as it was.
RegistersUnchanged ==
    (/\ call'.op \in ReadOnlyOps
     /\ call'.op # call.op \/ call'.log # call.log)
    => dev' = dev

\* C20: asleep, device_temperature, image, frame_rate, moving_average,
\* interrupt_config, interrupt, overflow and pixel_interrupt issue reads only
\* and leave the device's registers unchanged; every bus transaction the
\* driver issues, read or write, is addressed to the address the driver was
\* given at construction.
C20_ReadOnlyAndAddressed ==
    /\ []ReadsOnlyAtOwnAddress
    /\ [][RegistersUnchanged]_vars

C20_Witness ==
    /\ call.op = "image"
    /\ call.outcome = "ok"
    /\ address = 104
    /\ Len(call.log) = 8
    /\ \A i \in 1..8 : call.log[i].op = "read" /\ call.log[i].address = 104

====
